---- MODULE Spec2Model ----
(***************************************************************************)
(* Ordinary percolation on a pore network:                                 *)
(* OpenPNM/ALG/__OrdinaryPercolationAlgorithm__.py                         *)
(*                                                                         *)
(* Pressures are real numbers in the program.  np.linspace(min_p, max_p,   *)
(* npts) yields min_p + i*(max_p-min_p)/(npts-1); every pressure of the    *)
(* model is therefore kept as the integer  value * Scale(npts)  with       *)
(* Scale(npts) = npts-1 (1 when npts < 2), which is exact rational         *)
(* arithmetic.  Entry pressures are integers, so within the bounds used    *)
(* here the floating point comparisons of the program agree with it.       *)
(***************************************************************************)
EXTENDS Integers, Sequences, FiniteSets, TLC

\* ---- bounds of the model ------------------------------------------------
NumPores == 3
MaxThroats == 2
MaxPc == 2
MaxNpts == 2
MaxVol == 1

VARIABLES
    connections,    \* throat_properties['connections']: <<pore, pore>> per throat
    Pc_entry,       \* throat_properties['Pc_entry']
    type,           \* pore_properties['type'] (0 = internal)
    volume,         \* pore_properties['volume'] as _plot_results reads it
    npts,           \* keyword argument npts as passed to _setup
    inv_faces,      \* keyword argument inv_faces as passed to _setup
    inv_sites,      \* keyword argument inv_sites as passed to _setup
    state,          \* position of the run
    props,          \* property arrays the algorithm has created and not deleted
    OP,             \* self._OP
    ALOP,           \* self._ALOP
    inv_src,        \* self._inv_src
    Pc_invaded,     \* pore_properties['Pc_invaded'] (scaled)
    throat_invaded, \* throat_properties['invaded']
    inv_points,     \* self._inv_points (scaled)
    idx,            \* position of the for loop in _inv_points
    inv_clusters,   \* value returned by the last _do_one_inner_iteration
    applied,        \* history: the inv_val of every iteration so far
    marked_at,      \* history: the inv_val at which inv_clusters[p] > 0
    written,        \* history: pores that line 103 has stored into
    results         \* self._results: <<Pc, numerator, denominator>> per row

vars == <<connections, Pc_entry, type, volume, npts, inv_faces, inv_sites,
          state, props, OP, ALOP, inv_src, Pc_invaded, throat_invaded,
          inv_points, idx, inv_clusters, applied, marked_at, written,
          results>>

netvars == <<connections, Pc_entry, type>>

kwargs == <<npts, inv_faces, inv_sites>>

\* ---- the network ----------------------------------------------------------
Pores == 0 .. (NumPores - 1)

Throats == 1 .. Len(connections)

\* pore_properties['numbering']: pore p carries number p
numbering == [p \in Pores |-> p]

Pairs == {pr \in Pores \X Pores : pr[1] < pr[2]}

\* boundary pores are numbered after the internal ones
TypeProfiles == {[p \in Pores |-> IF p >= k THEN 1 ELSE 0] : k \in 1 .. NumPores}

\* pore volumes between 0 and MaxVol
VolumeProfiles ==
    {[p \in Pores |-> (p + v) % (MaxVol + 1)] : v \in 0 .. MaxVol}

\* the generator lists the throats by ascending pore pair, one per pair
PairsAscending(conns) ==
    \A t \in 1 .. (Len(conns) - 1) :
        \/ conns[t][1] < conns[t + 1][1]
        \/ conns[t][1] = conns[t + 1][1] /\ conns[t][2] < conns[t + 1][2]

FaceLists == {{}, {1}}

SiteLists == {{}} \cup {{p} : p \in Pores}

\* the inv_faces, inv_sites of a call: none, one of them, or both
SourceArgs ==
    {a \in FaceLists \X SiteLists : a[1] = {} \/ a[2] \subseteq {0}}

\* entry pressures do not fall along the throat list
EntryAscending(entry) ==
    \A t \in 1 .. (Len(entry) - 1) : entry[t] <= entry[t + 1]

\* ---- numpy helpers ----------------------------------------------------------
RECURSIVE SeqMin(_), SeqMax(_)
SeqMin(s) ==
    IF Len(s) = 1 THEN s[1]
    ELSE LET m == SeqMin(Tail(s)) IN IF s[1] < m THEN s[1] ELSE m

SeqMax(s) ==
    IF Len(s) = 1 THEN s[1]
    ELSE LET m == SeqMax(Tail(s)) IN IF s[1] > m THEN s[1] ELSE m

Scale(n) == IF n >= 2 THEN n - 1 ELSE 1

\* np.linspace(min_p, max_p, n) for n >= 0, times Scale(n)
linspace(min_p, max_p, n) ==
    [i \in 1 .. n |-> min_p * Scale(n) + (i - 1) * (max_p - min_p)]

SetMin(S) == CHOOSE x \in S : \A y \in S : x <= y

\* np.unique: the distinct values, sorted ascending
RECURSIVE unique(_)
unique(S) ==
    IF S = {} THEN <<>>
    ELSE <<SetMin(S)>> \o unique(S \ {SetMin(S)})

RECURSIVE SumVolume(_, _)
SumVolume(S, vol) ==
    IF S = {} THEN 0
    ELSE LET p == CHOOSE x \in S : TRUE
         IN vol[p] + SumVolume(S \ {p}, vol)

\* ---- _do_one_inner_iteration ------------------------------------------------
\* mutant: a throat opens as soon as the applied pressure equals its entry
ThroatOpen_Leq(entry, sc, inv_val) == entry * sc <= inv_val

\* line 128: throat state at applied pressure inv_val (scaled by sc)
ThroatOpen(entry, sc, inv_val) == entry * sc < inv_val

InvadedFlags(sc, inv_val) ==
    [t \in Throats |-> ThroatOpen(Pc_entry[t], sc, inv_val)]

\* line 130: adjacency over the throats whose 'invaded' value is non-zero
create_adjacency_matrix(flags) ==
    {pr \in Pores \X Pores :
        \E t \in Throats :
            /\ flags[t]
            /\ \/ connections[t] = <<pr[1], pr[2]>>
               \/ connections[t] = <<pr[2], pr[1]>>}

RECURSIVE Flood(_, _)
Flood(S, adj) ==
    LET N == S \cup {q \in Pores : \E p \in S : <<p, q>> \in adj}
    IN IF N = S THEN S ELSE Flood(N, adj)

\* line 132: scipy labels the components 0, 1, ... in the order of their
\* lowest numbered node
RECURSIVE LabelFrom(_, _, _, _)
LabelFrom(v, next, labels, adj) ==
    IF v > NumPores - 1 THEN labels
    ELSE IF labels[v] >= 0 THEN LabelFrom(v + 1, next, labels, adj)
    ELSE LET comp == Flood({v}, adj)
         IN LabelFrom(v + 1, next + 1,
                      [p \in Pores |-> IF p \in comp THEN next ELSE labels[p]],
                      adj)

connected_components(adj) == LabelFrom(0, 0, [p \in Pores |-> -2], adj)

\* mutant: the labels are not shifted, so that label 0 reads as "none"
CleanUp_NoShift(labels) ==
    [p \in Pores |-> IF labels[p] >= 0 THEN labels[p] ELSE 0]

\* line 134
CleanUp(labels) ==
    [p \in Pores |-> IF labels[p] >= 0 THEN labels[p] + 1 ELSE 0]

\* line 137: the values of inv_src*clusters
InjALOP(src, clusters) ==
    {IF src[p] THEN clusters[p] ELSE 0 : p \in Pores}

\* lines 140-142: the values of the appended numbering[temp1], numbering[temp2]
InjOP(flags) ==
    {numbering[IF flags[t] THEN connections[t][1] ELSE 0] : t \in Throats}
    \cup
    {numbering[IF flags[t] THEN connections[t][2] ELSE 0] : t \in Throats}

\* lines 146-150
TrimClusters(clusters, inj) ==
    LET temp == inj \ {0}
    IN [p \in Pores |-> IF clusters[p] \in temp THEN clusters[p] ELSE 0]

do_one_inner_iteration(sc, inv_val) ==
    LET flags == InvadedFlags(sc, inv_val)
        clusters == CleanUp(connected_components(create_adjacency_matrix(flags)))
        inj == IF ALOP = 1 THEN InjALOP(inv_src, clusters) ELSE InjOP(flags)
    IN TrimClusters(clusters, inj)

\* ---- _plot_results ----------------------------------------------------------
\* mutant: the invaded volume is summed over all pores, not over Ps
SnwpNum_AllPores(Pc, rec, vol, Ps) ==
    SumVolume({p \in Pores : rec[p] < Pc}, vol)

\* line 162: numerator of Snwp[i]
SnwpNum(Pc, rec, vol, Ps) ==
    SumVolume({p \in Ps : rec[p] < Pc}, vol)

plot_results(rec, vol, typ) ==
    LET PcPoints == unique({rec[p] : p \in Pores})
        Ps == {p \in Pores : typ[p] = 0}
    IN [i \in 1 .. Len(PcPoints) |->
          <<PcPoints[i],
            IF i = 1 THEN 0 ELSE SnwpNum(PcPoints[i], rec, vol, Ps),
            SumVolume(Ps, vol)>>]

\* ---- the run ----------------------------------------------------------------
Init ==
    /\ \E n \in 0 .. MaxThroats :
          /\ connections \in {c \in [1 .. n -> Pairs] : PairsAscending(c)}
          /\ Pc_entry \in {e \in [1 .. n -> 0 .. MaxPc] : EntryAscending(e)}
    /\ type \in TypeProfiles
    /\ volume = [p \in Pores |-> 0]
    /\ npts = 0
    /\ inv_faces = {}
    /\ inv_sites = {}
    /\ state = "New"
    /\ props = {}
    /\ OP = 0
    /\ ALOP = 0
    /\ inv_src = [p \in Pores |-> FALSE]
    /\ Pc_invaded = [p \in Pores |-> 0]
    /\ throat_invaded = <<>>
    /\ inv_points = <<>>
    /\ idx = 0
    /\ inv_clusters = [p \in Pores |-> 0]
    /\ applied = <<>>
    /\ marked_at = [p \in Pores |-> {}]
    /\ written = {}
    /\ results = <<>>

\* the keyword arguments of a call: line 50
Call(n, faces, sites) ==
    /\ npts' = n
    /\ inv_faces' = faces
    /\ inv_sites' = sites

\* lines 73-84
SourceMode(faces, sites) ==
    /\ OP' = IF Cardinality(faces) + Cardinality(sites) = 0 THEN 1 ELSE 0
    /\ ALOP' = IF Cardinality(faces) + Cardinality(sites) = 0 THEN 0 ELSE 1
    /\ inv_src' =
          IF Cardinality(faces) + Cardinality(sites) = 0 THEN inv_src
          ELSE IF Cardinality(faces) > 0
               THEN [p \in Pores |-> type[p] \in faces]
               ELSE [p \in Pores |-> numbering[p] \in sites]

\* lines 87-90
CreateLists ==
    /\ Pc_invaded' = [p \in Pores |-> 0]
    /\ throat_invaded' = [t \in Throats |-> FALSE]
    /\ props' = {"pore.Pc_invaded", "throat.Pc_invaded", "throat.invaded"}

\* __init__ and _setup with a schedule: lines 41-94
SetupOk ==
    /\ state = "New"
    /\ Len(connections) > 0
    /\ \E n \in -1 .. MaxNpts, a \in SourceArgs :
          /\ Call(n, a[1], a[2])
          /\ SourceMode(a[1], a[2])
          /\ inv_points' = linspace(SeqMin(Pc_entry), SeqMax(Pc_entry),
                                    IF n < 0 THEN 0 ELSE n)
    /\ CreateLists
    /\ state' = "Idle"
    /\ UNCHANGED <<netvars, volume, idx, inv_clusters, applied, marked_at,
                   written, results>>

\* _setup raising: np.min of an empty array (line 92) raises ValueError;
\* np.linspace with a negative count (line 94) raises ValueError in the
\* numpy releases that do not return an empty array for it
SetupError ==
    /\ state = "New"
    /\ \E n \in -1 .. MaxNpts, a \in SourceArgs :
          /\ \/ Len(connections) = 0
             \/ n < 0
          /\ Call(n, a[1], a[2])
          /\ SourceMode(a[1], a[2])
    /\ CreateLists
    /\ state' = "Error"
    /\ UNCHANGED <<netvars, volume, inv_points, idx, inv_clusters, applied,
                   marked_at, written, results>>

\* _do_outer_iteration_stage is entered: line 96
Start ==
    /\ state = "Idle"
    /\ state' = "Stepping"
    /\ idx' = 1
    /\ UNCHANGED <<netvars, kwargs, volume, props, OP, ALOP, inv_src,
                   Pc_invaded, throat_invaded, inv_points, inv_clusters,
                   applied, marked_at, written, results>>

\* one pass of the loop body: lines 98-103
Step ==
    /\ state = "Stepping"
    /\ idx <= Len(inv_points)
    /\ LET inv_val == inv_points[idx]
       IN /\ throat_invaded' = InvadedFlags(Scale(npts), inv_val)
          /\ inv_clusters' = do_one_inner_iteration(Scale(npts), inv_val)
          /\ Pc_invaded' = [p \in Pores |->
                              IF Pc_invaded[p] = 0 /\ inv_clusters'[p] > 0
                              THEN inv_val ELSE Pc_invaded[p]]
          /\ applied' = Append(applied, inv_val)
          /\ marked_at' = [p \in Pores |->
                             IF inv_clusters'[p] > 0
                             THEN marked_at[p] \cup {inv_val}
                             ELSE marked_at[p]]
          /\ written' = written \cup
                {p \in Pores : Pc_invaded[p] = 0 /\ inv_clusters'[p] > 0}
    /\ idx' = idx + 1
    /\ UNCHANGED <<netvars, kwargs, volume, state, props, OP, ALOP, inv_src,
                   inv_points, results>>

\* the loop is exhausted: line 113
Finish ==
    /\ state = "Stepping"
    /\ idx > Len(inv_points)
    /\ props' = props \ {"throat.invaded"}
    /\ throat_invaded' = <<>>
    /\ state' = "Done"
    /\ UNCHANGED <<netvars, kwargs, volume, OP, ALOP, inv_src, Pc_invaded,
                   inv_points, idx, inv_clusters, applied, marked_at, written,
                   results>>

\* _plot_results: lines 153-165
PlotResults ==
    /\ state = "Done"
    /\ \E vol \in VolumeProfiles :
          /\ volume' = vol
          /\ results' = plot_results(Pc_invaded, vol, type)
    /\ state' = "Plotted"
    /\ UNCHANGED <<netvars, kwargs, props, OP, ALOP, inv_src, Pc_invaded,
                   throat_invaded, inv_points, idx, inv_clusters, applied,
                   marked_at, written>>

Next ==
    \/ SetupOk
    \/ SetupError
    \/ Start
    \/ Step
    \/ Finish
    \/ PlotResults

Spec == Init /\ [][Next]_vars

\* ---- properties ---------------------------------------------------------
Stepped == state \in {"Stepping", "Done", "Plotted"} /\ applied # <<>>

LastApplied == applied[Len(applied)]

Joined(a, b, limit) ==
    \E t \in Throats :
        /\ Pc_entry[t] * Scale(npts) < limit
        /\ \/ connections[t] = <<a, b>>
           \/ connections[t] = <<b, a>>

\* a path of at most k throats (possibly none) from pore p to a source pore
\* over throats whose entry pressure is below limit
RECURSIVE PathWithin(_, _, _)
PathWithin(p, limit, k) ==
    \/ inv_src[p]
    \/ /\ k > 0
       /\ \E q \in Pores : Joined(p, q, limit) /\ PathWithin(q, limit, k - 1)

PathToSource(p, limit) == PathWithin(p, limit, NumPores - 1)

MaxEntryScaled == SeqMax(Pc_entry) * Scale(npts)

AnyLimit == (MaxPc + 1) * (MaxNpts + 1)

\* C1: with both inv_faces and inv_sites non-empty, setup ends in an error
\* and neither the source mode nor the flood mode is activated
C1_BothSourcesRejected ==
    (state # "New" /\ inv_faces # {} /\ inv_sites # {})
        => (state = "Error" /\ OP = 0 /\ ALOP = 0)

\* C2: once the sweep has stored a pore's Pc_invaded, no later step changes it
C2_RecordNeverRewritten ==
    [][\A p \in Pores : p \in written => Pc_invaded'[p] = Pc_invaded[p]]_vars

\* C3: when the sweep is Done, every pore that was marked at some schedule
\* pressure is recorded with the lowest pressure at which it was marked
C3_FirstInvasionWins ==
    state = "Done" =>
        \A p \in Pores :
            marked_at[p] # {} => Pc_invaded[p] = SetMin(marked_at[p])

C5_FloodModeEndpoints ==
    (Stepped /\ OP = 1) =>
        {p \in Pores : inv_clusters[p] > 0}
            = {p \in Pores : \E q \in Pores : Joined(p, q, LastApplied)}

\* C6: with positive internal volume the curve has ascending pressures,
\* starts at saturation 0, never decreases and stays within [0,1]
C6_CurveShape ==
    (state = "Plotted" /\ SumVolume({p \in Pores : type[p] = 0}, volume) > 0) =>
        /\ Len(results) >= 1
        /\ results[1][2] = 0
        /\ \A i \in 1 .. Len(results) :
              /\ results[i][3] > 0
              /\ 0 <= results[i][2]
              /\ results[i][2] <= results[i][3]
        /\ \A i \in 1 .. (Len(results) - 1) :
              /\ results[i][1] < results[i + 1][1]
              /\ results[i][2] * results[i + 1][3]
                    <= results[i + 1][2] * results[i][3]

C6_Witness ==
    /\ state = "Plotted"
    /\ Len(results) >= 3
    /\ results[2][3] > 0
    /\ results[2][2] < results[3][2]
    /\ results[3][2] <= results[3][3]

\* C7: with no throat, or with npts <= 0, setup ends in an error and no
\* invasion record is ever created
C7_MisconfigurationRejected ==
    (state # "New" /\ (Len(connections) = 0 \/ npts <= 0))
        => (state = "Error" /\ "pore.Pc_invaded" \notin props)

\* C8: the applied pressures are strictly increasing, and a network whose
\* throats share one entry pressure has a single-point schedule
C8_StrictSinglePass ==
    /\ \A i, j \in 1 .. Len(applied) : i < j => applied[i] < applied[j]
    /\ (state \in {"Idle", "Stepping", "Done", "Plotted"} /\ npts >= 1
          /\ SeqMin(Pc_entry) = SeqMax(Pc_entry))
        => Len(inv_points) = 1

\* C9: the saturation at each curve pressure is the volume fraction of the
\* internal pores that were invaded at a lower pressure; a pore still at
\* the sentinel 0 contributes nothing
C9_UninvadedContributeNothing ==
    state = "Plotted" =>
        \A i \in 1 .. Len(results) :
            results[i][2] =
                SumVolume({p \in Pores : /\ type[p] = 0
                                         /\ Pc_invaded[p] # 0
                                         /\ Pc_invaded[p] < results[i][1]},
                          volume)

\* C10: a throat at the maximum entry pressure is never open, no throat is
\* open at the first step, a non-source pore cut off from the sources by
\* such throats is still at the sentinel when the sweep is Done, and with
\* one shared entry pressure only source pores are recorded
C10_MaxEntryThroatNeverOpens ==
    /\ (state = "Stepping" /\ applied # <<>>) =>
          /\ \A t \in Throats :
                Pc_entry[t] = SeqMax(Pc_entry) => ~throat_invaded[t]
          /\ Len(applied) = 1 => \A t \in Throats : ~throat_invaded[t]
    /\ (state = "Done" /\ ALOP = 1) =>
          \A p \in Pores :
              (~inv_src[p] /\ ~PathToSource(p, MaxEntryScaled))
                  => Pc_invaded[p] = 0
    /\ (state = "Done" /\ ALOP = 1 /\ SeqMin(Pc_entry) = SeqMax(Pc_entry)) =>
          \A p \in Pores : Pc_invaded[p] # 0 => inv_src[p]

C10_Witness ==
    /\ state = "Done"
    /\ ALOP = 1
    /\ Len(applied) >= 2
    /\ \E p \in Pores :
          /\ ~inv_src[p]
          /\ PathToSource(p, AnyLimit)
          /\ ~PathToSource(p, MaxEntryScaled)
          /\ Pc_invaded[p] = 0
    /\ \E p \in Pores : ~inv_src[p] /\ Pc_invaded[p] # 0

====
